---- MODULE Spec2Model ----
(***************************************************************************)
(* Model of src/binaryToObject/pe.cpp: the Windows COFF object writer that *)
(* wraps a binary blob in one section bracketed by two symbols.            *)
(*                                                                         *)
(* Machine integers are little-endian byte vectors of their C width        *)
(* (uint16_t: 2 bytes, unsigned/int/uint32_t: 4 bytes, size_t: 8 bytes on  *)
(* an LP64/LLP64 host), so that every wrap-around and every narrowing of   *)
(* the C code is computed and a packed struct is the concatenation of its  *)
(* fields.  The sink records each writeChunk / writeRepeat call it gets.   *)
(***************************************************************************)
EXTENDS Integers, Sequences, FiniteSets, TLC

\* ------------------------------------------------------------------ bounds
\* Largest "ordinary" blob size enumerated (sizes 0..MaxSize), next to the
\* sizes around 2^32 listed in WrapSizes.
MaxSize == 5
\* Longest symbol name enumerated (names of 0..MaxNameLen characters).
MaxNameLen == 2

\* ------------------------------------------------- fixed-width arithmetic
Byte == 0..255

\* stdint widths in bytes.
W16 == 2
W32 == 4
\* sizeof(size_t) on the 64-bit hosts the tools are built on.
WSizeT == 8

RECURSIVE ToBytes(_, _)
\* The w-byte little-endian representation of the small natural n.
ToBytes(n, w) == IF w = 0 THEN <<>> ELSE <<n % 256>> \o ToBytes(n \div 256, w - 1)

Zeros(w) == [i \in 1..w |-> 0]

\* Integral conversion to a type of w bytes: truncation or zero extension.
Conv(a, w) == IF Len(a) >= w THEN SubSeq(a, 1, w) ELSE a \o Zeros(w - Len(a))

RECURSIVE AddC(_, _, _)
\* a + b + carry modulo 256^Len(a), for byte vectors of one length.
AddC(a, b, c) ==
  IF a = <<>> THEN <<>>
  ELSE LET s == Head(a) + Head(b) + c
       IN  <<s % 256>> \o AddC(Tail(a), Tail(b), s \div 256)

Add(a, b) == AddC(a, b, 0)
Not(a) == [i \in 1..Len(a) |-> 255 - a[i]]
Sub(a, b) == AddC(a, Not(b), 1)

RECURSIVE Less(_, _)
\* a < b as unsigned numbers, for byte vectors of one length.
Less(a, b) ==
  IF a = <<>> THEN FALSE
  ELSE LET n == Len(a)
       IN  IF a[n] # b[n] THEN a[n] < b[n]
           ELSE Less(SubSeq(a, 1, n - 1), SubSeq(b, 1, n - 1))

RECURSIVE OrNat(_, _)
OrNat(x, y) ==
  IF x = 0 THEN y
  ELSE IF y = 0 THEN x
  ELSE (IF x % 2 = 1 \/ y % 2 = 1 THEN 1 ELSE 0) + 2 * OrNat(x \div 2, y \div 2)

RECURSIVE AndNat(_, _)
AndNat(x, y) ==
  IF x = 0 \/ y = 0 THEN 0
  ELSE (IF x % 2 = 1 /\ y % 2 = 1 THEN 1 ELSE 0) + 2 * AndNat(x \div 2, y \div 2)

\* Bitwise | and & of byte vectors of one length.
Or(a, b) == [i \in 1..Len(a) |-> OrNat(a[i], b[i])]
And(a, b) == [i \in 1..Len(a) |-> AndNat(a[i], b[i])]

IsZero(a) == \A i \in 1..Len(a) : a[i] = 0

\* The value of a byte vector that is below 2^24 (used for indexing only).
Small(a) == \A i \in 4..Len(a) : a[i] = 0
ToNat(a) == a[1] + 256 * a[2] + 65536 * a[3]

\* --------------------------------------------------------------- constants
IMAGE_SIZEOF_SHORT_NAME == 8

\* int-typed macro values, as 4-byte vectors.
IMAGE_FILE_RELOCS_STRIPPED == ToBytes(1, W32)
IMAGE_FILE_LINE_NUMS_STRIPPED == ToBytes(4, W32)
IMAGE_FILE_MACHINE_AMD64 == <<100, 134, 0, 0>>     \* 0x8664
IMAGE_FILE_MACHINE_I386 == <<76, 1, 0, 0>>         \* 0x014c
IMAGE_FILE_32BIT_MACHINE == ToBytes(256, W32)

IMAGE_SCN_ALIGN_1BYTES == <<0, 0, 16, 0>>          \* 0x100000
IMAGE_SCN_ALIGN_2BYTES == <<0, 0, 32, 0>>          \* 0x200000
IMAGE_SCN_ALIGN_4BYTES == <<0, 0, 48, 0>>          \* 0x300000
IMAGE_SCN_ALIGN_8BYTES == <<0, 0, 64, 0>>          \* 0x400000
IMAGE_SCN_MEM_EXECUTE == <<0, 0, 0, 32>>           \* 0x20000000
IMAGE_SCN_MEM_READ == <<0, 0, 0, 64>>              \* 0x40000000
IMAGE_SCN_MEM_WRITE == <<0, 0, 0, 128>>            \* 0x80000000
IMAGE_SCN_CNT_CODE == ToBytes(32, W32)

\* ObjectWriter::AccessFlags (declared in tools.h).
Writable == ToBytes(2, W32)
Executable == ToBytes(4, W32)

\* ----------------------------------------------------------- packed structs
\* A packed struct is a sequence of <<field name, width>>; a value of it is a
\* record of byte vectors, and its bytes are the fields' bytes in order.
IMAGE_FILE_HEADER ==
  << <<"Machine", W16>>, <<"NumberOfSections", W16>>, <<"TimeDateStamp", W32>>,
     <<"PointerToSymbolTable", W32>>, <<"NumberOfSymbols", W32>>,
     <<"SizeOfOptionalHeader", W16>>, <<"Characteristics", W16>> >>

IMAGE_SECTION_HEADER ==
  << <<"Name", IMAGE_SIZEOF_SHORT_NAME>>, <<"Misc", W32>>, <<"VirtualAddress", W32>>,
     <<"SizeOfRawData", W32>>, <<"PointerToRawData", W32>>,
     <<"PointerToRelocations", W32>>, <<"PointerToLinenumbers", W32>>,
     <<"NumberOfRelocations", W16>>, <<"NumberOfLinenumbers", W16>>,
     <<"Characteristics", W32>> >>

IMAGE_SYMBOL ==
  << <<"Short", W32>>, <<"Long", W32>>, <<"Value", W32>>, <<"SectionNumber", W16>>,
     <<"Type", W16>>, <<"StorageClass", 1>>, <<"NumberOfAuxSymbols", 1>> >>

RECURSIVE SizeOf(_)
\* sizeof(T) for a packed struct T, as a natural.
SizeOf(T) == IF T = <<>> THEN 0 ELSE Head(T)[2] + SizeOf(Tail(T))

RECURSIVE OffsetOf(_, _)
\* offsetof(T, f).
OffsetOf(T, f) == IF Head(T)[1] = f THEN 0 ELSE Head(T)[2] + OffsetOf(Tail(T), f)

RECURSIVE ObjectBytes(_, _)
\* The object representation of value v of packed struct T.
ObjectBytes(T, v) ==
  IF T = <<>> THEN <<>> ELSE Conv(v[Head(T)[1]], Head(T)[2]) \o ObjectBytes(Tail(T), v)

\* sizeof(T) as a size_t.
SizeOfT(T) == ToBytes(SizeOf(T), WSizeT)

\* ------------------------------------------------------------------- pad
\* return (n + (4 - 1)) & ~(4 - 1);  on unsigned.
pad(n) == And(Add(n, ToBytes(4 - 1, W32)), Not(ToBytes(4 - 1, W32)))

\* --------------------------------------------------------------- C strings
\* A C string is the sequence of its characters; in memory a NUL follows.
strlen(s) == ToBytes(Len(s), WSizeT)
CStr(s) == s \o <<0>>
\* strncpy(dest, src, n): the n bytes dest holds afterwards.
strncpy(src, n) == [i \in 1..n |-> IF i <= Len(src) THEN src[i] ELSE 0]

SectionText == <<46, 116, 101, 120, 116>>          \* ".text"
SectionData == <<46, 100, 97, 116, 97>>            \* ".data"
SectionRwx == <<46, 114, 119, 120>>                \* ".rwx"

\* ------------------------------------------------------------------- state
\* Two invocations of PEObjectWriter::write can be in progress at once.
Procs == {1, 2}

VARIABLES
  pc,           \* pc[p]: where invocation p is in write / writeObject
  args,         \* args[p]: the arguments of invocation p and its writer's BytesPerWord
  machine,      \* write's local machine
  machineMask,  \* write's local machineMask
  sectionMask,  \* write's local sectionMask
  sectionName,  \* write's local sectionName
  frame,        \* writeObject's locals (lines 90-150) once it is entered
  out,          \* out[k]: the calls OutputStream k has received, in order
  ret,          \* ret[p]: what write returned ("true" / "false"), "none" before
  stderr        \* the alignment values reported on stderr, in order

vars == <<pc, args, machine, machineMask, sectionMask, sectionName, frame, out, ret, stderr>>

\* The value of a local that has not been assigned.
Indeterminate == <<>>
NoFrame == [entered |-> FALSE]
NoReturn == "none"

\* ------------------------------------------------------------ OutputStream
\* One call on the sink.  kind "lit": the bytes of an object in memory;
\* kind "mem": len bytes read from a blob whose content repeats `bytes`;
\* kind "fill": len copies of a byte.
Call(op, kind, bytes, len) == [op |-> op, kind |-> kind, bytes |-> bytes, len |-> len]

\* out->writeChunk(&object, sizeof(object)) and out->writeChunk(str, n)
writeChunk(bytes, n) == Call("writeChunk", "lit", SubSeq(bytes, 1, ToNat(n)), Conv(n, WSizeT))
\* out->writeChunk(data, size)
writeChunkData(data, size) == Call("writeChunk", "mem", data, Conv(size, WSizeT))
\* out->writeRepeat(byte, count)
writeRepeat(byte, count) == Call("writeRepeat", "fill", <<byte>>, Conv(count, WSizeT))

\* Every invocation writing to one process-wide sink.
SharedSink(a) == 1
\* The sink an invocation writes to (its out argument).
SinkOf(a) == a.out

\* ------------------------------------------------------------------ inputs
\* Symbol names: the prefixes of "_se..." for the start symbol and of "_es..."
\* for the end symbol (the empty name included: nothing validates names).
Prefixes(chars) == {[i \in 1..k |-> chars[((i - 1) % Len(chars)) + 1]] : k \in 0..MaxNameLen}
StartNames == Prefixes(<<95, 115, 101>>)
EndNames == Prefixes(<<95, 101, 115>>)

\* Blob contents (memory at data + i is Pattern[i mod Len(Pattern)]).
Blobs == {<<170>>, <<1, 2>>}

\* 2^32 as a size_t, and sizes at and around the width of unsigned.
TwoTo32 == <<0, 0, 0, 0, 1, 0, 0, 0>>
WrapSizes == {Sub(TwoTo32, ToBytes(64, WSizeT)), Sub(TwoTo32, ToBytes(4, WSizeT)),
              Sub(TwoTo32, ToBytes(1, WSizeT)), Add(TwoTo32, ToBytes(1, WSizeT))}
Sizes == {ToBytes(n, WSizeT) : n \in 0..MaxSize} \cup WrapSizes

Alignments == {ToBytes(n, W32) : n \in {0, 1, 2, 3, 4, 8, 16}}
AccessFlags == {ToBytes(n, W32) : n \in 0..7}
WordSizes == {4, 8}

Args(o) == [BytesPerWord : WordSizes, data : Blobs, size : Sizes, out : {o},
            startName : StartNames, endName : EndNames,
            alignment : Alignments, accessFlags : AccessFlags]

\* ----------------------------------------------------- PEObjectWriter::write
\* Lines 179-188: machine and machineMask from the writer's BytesPerWord.
MachineFor(BytesPerWord) ==
  IF BytesPerWord = 8 THEN IMAGE_FILE_MACHINE_AMD64 ELSE IMAGE_FILE_MACHINE_I386
\* A writer that sets the 32-bit flag whatever its word size.
MachineMaskAlways32(BytesPerWord) == IMAGE_FILE_32BIT_MACHINE
MachineMaskFor(BytesPerWord) ==
  IF BytesPerWord = 8 THEN ToBytes(0, W32) ELSE IMAGE_FILE_32BIT_MACHINE

SelectMachine(p) ==
  /\ pc[p] = "write"
  /\ machine' = [machine EXCEPT ![p] = MachineFor(args[p].BytesPerWord)]
  /\ machineMask' = [machineMask EXCEPT ![p] = MachineMaskFor(args[p].BytesPerWord)]
  /\ pc' = [pc EXCEPT ![p] = "alignment"]
  /\ UNCHANGED <<args, sectionMask, sectionName, frame, out, ret, stderr>>

\* A switch whose default falls back to 1-byte alignment instead of failing.
AlignmentMaskLenient(alignment) ==
  CASE alignment = ToBytes(2, W32) -> IMAGE_SCN_ALIGN_2BYTES
    [] alignment = ToBytes(4, W32) -> IMAGE_SCN_ALIGN_4BYTES
    [] alignment = ToBytes(8, W32) -> IMAGE_SCN_ALIGN_8BYTES
    [] OTHER -> IMAGE_SCN_ALIGN_1BYTES

\* Lines 191-208: the switch on alignment; Indeterminate stands for default.
AlignmentMask(alignment) ==
  CASE alignment = ToBytes(0, W32) -> IMAGE_SCN_ALIGN_1BYTES
    [] alignment = ToBytes(1, W32) -> IMAGE_SCN_ALIGN_1BYTES
    [] alignment = ToBytes(2, W32) -> IMAGE_SCN_ALIGN_2BYTES
    [] alignment = ToBytes(4, W32) -> IMAGE_SCN_ALIGN_4BYTES
    [] alignment = ToBytes(8, W32) -> IMAGE_SCN_ALIGN_8BYTES
    [] OTHER -> Indeterminate

SelectAlignment(p) ==
  /\ pc[p] = "alignment"
  /\ AlignmentMask(args[p].alignment) # Indeterminate
  /\ sectionMask' = [sectionMask EXCEPT ![p] = AlignmentMask(args[p].alignment)]
  /\ pc' = [pc EXCEPT ![p] = "access"]
  /\ UNCHANGED <<args, machine, machineMask, sectionName, frame, out, ret, stderr>>

\* Lines 205-207: fprintf(stderr, "unsupported alignment: %d\n", alignment); return false;
UnsupportedAlignment(p) ==
  /\ pc[p] = "alignment"
  /\ AlignmentMask(args[p].alignment) = Indeterminate
  /\ stderr' = Append(stderr, args[p].alignment)
  /\ ret' = [ret EXCEPT ![p] = "false"]
  /\ pc' = [pc EXCEPT ![p] = "done"]
  /\ UNCHANGED <<args, machine, machineMask, sectionMask, sectionName, frame, out>>

\* Lines 212-226: section name and the mask bits the access flags add.
SectionNameFor(accessFlags) ==
  IF ~IsZero(And(accessFlags, Writable))
  THEN IF ~IsZero(And(accessFlags, Executable)) THEN SectionRwx ELSE SectionData
  ELSE SectionText

\* The access branches with the .rwx branch missing IMAGE_SCN_CNT_CODE.
AccessMaskNoCode(accessFlags) ==
  IF ~IsZero(And(accessFlags, Writable))
  THEN IF ~IsZero(And(accessFlags, Executable))
       THEN Or(IMAGE_SCN_MEM_WRITE, IMAGE_SCN_MEM_EXECUTE)
       ELSE IMAGE_SCN_MEM_WRITE
  ELSE Or(IMAGE_SCN_MEM_EXECUTE, IMAGE_SCN_CNT_CODE)

AccessMask(accessFlags) ==
  IF ~IsZero(And(accessFlags, Writable))
  THEN IF ~IsZero(And(accessFlags, Executable))
       THEN Or(Or(IMAGE_SCN_MEM_WRITE, IMAGE_SCN_MEM_EXECUTE), IMAGE_SCN_CNT_CODE)
       ELSE IMAGE_SCN_MEM_WRITE
  ELSE Or(IMAGE_SCN_MEM_EXECUTE, IMAGE_SCN_CNT_CODE)

\* Lines 210-226.
SelectAccess(p) ==
  /\ pc[p] = "access"
  /\ sectionName' = [sectionName EXCEPT ![p] = SectionNameFor(args[p].accessFlags)]
  /\ sectionMask' = [sectionMask EXCEPT ![p] =
       Or(Or(sectionMask[p], IMAGE_SCN_MEM_READ), AccessMask(args[p].accessFlags))]
  /\ pc' = [pc EXCEPT ![p] = "writeObject"]
  /\ UNCHANGED <<args, machine, machineMask, frame, out, ret, stderr>>

\* ------------------------------------------------------------- writeObject
WidthOf(T, f) == T[CHOOSE i \in DOMAIN T : T[i][1] = f][2]

\* A struct object after initialisation: each initialiser converted to the
\* type of its field.
Store(T, v) == [f \in {T[i][1] : i \in DOMAIN T} |-> Conv(v[f], WidthOf(T, f))]

sectionCount == ToBytes(1, W32)
symbolCount == ToBytes(2, W32)
sectionNumber == ToBytes(1, W32)
startNameOffset == ToBytes(4, W32)

\* A name length that forgets the terminating NUL.
NameLengthNoNul(name) == Conv(strlen(name), W32)
\* Lines 95-96: const unsigned xNameLength = strlen(xName) + 1;
NameLength(name) == Conv(Add(strlen(name), ToBytes(1, WSizeT)), W32)
\* Line 99.
EndNameOffset(startNameLength) == Add(startNameOffset, startNameLength)

\* Lines 105-107: sizeof + sizeof + pad(size), computed in size_t.
SymbolTablePointer(size) ==
  Add(Add(SizeOfT(IMAGE_FILE_HEADER), SizeOfT(IMAGE_SECTION_HEADER)), Conv(pad(size), WSizeT))

\* Lines 101-113.
FileHeader(size, mach, machMask) ==
  Store(IMAGE_FILE_HEADER,
        [Machine |-> mach,
         NumberOfSections |-> sectionCount,
         TimeDateStamp |-> ToBytes(0, W32),
         PointerToSymbolTable |-> SymbolTablePointer(size),
         NumberOfSymbols |-> symbolCount,
         SizeOfOptionalHeader |-> ToBytes(0, W32),
         Characteristics |->
           Or(Or(IMAGE_FILE_RELOCS_STRIPPED, IMAGE_FILE_LINE_NUMS_STRIPPED), machMask)])

\* Lines 115-130, the strncpy into Name included.
SectionHeader(size, secName, secMask) ==
  Store(IMAGE_SECTION_HEADER,
        [Name |-> strncpy(secName, WidthOf(IMAGE_SECTION_HEADER, "Name")),
         Misc |-> ToBytes(0, W32),
         VirtualAddress |-> ToBytes(0, W32),
         SizeOfRawData |-> pad(size),
         PointerToRawData |-> Add(SizeOfT(IMAGE_FILE_HEADER), SizeOfT(IMAGE_SECTION_HEADER)),
         PointerToRelocations |-> ToBytes(0, W32),
         PointerToLinenumbers |-> ToBytes(0, W32),
         NumberOfRelocations |-> ToBytes(0, W32),
         NumberOfLinenumbers |-> ToBytes(0, W32),
         Characteristics |-> secMask])

\* Lines 132-150: a symbol with the given value whose name is at nameOffset
\* of the string table.
Symbol(value, nameOffset) ==
  Store(IMAGE_SYMBOL,
        [Short |-> ToBytes(0, W32),
         Long |-> nameOffset,
         Value |-> value,
         SectionNumber |-> sectionNumber,
         Type |-> ToBytes(0, W32),
         StorageClass |-> ToBytes(2, W32),
         NumberOfAuxSymbols |-> ToBytes(0, W32)])

\* Line 144: the end symbol's Value.
EndSymbolValue(size) == size

\* Line 228 (the size_t size becomes writeObject's unsigned size) and lines
\* 90-150: every local of writeObject, before the first write.
WriteObjectFrame(a, mach, machMask, secName, secMask) ==
  LET size == Conv(a.size, W32)
      startNameLength == NameLength(a.startName)
      endNameLength == NameLength(a.endName)
      endNameOffset == EndNameOffset(startNameLength)
  IN  [entered |-> TRUE,
       size |-> size,
       startNameLength |-> startNameLength,
       endNameLength |-> endNameLength,
       endNameOffset |-> endNameOffset,
       fileHeader |-> FileHeader(size, mach, machMask),
       sectionHeader |-> SectionHeader(size, secName, secMask),
       startSymbol |-> Symbol(ToBytes(0, W32), startNameOffset),
       endSymbol |-> Symbol(EndSymbolValue(size), endNameOffset)]

EnterWriteObject(p) ==
  /\ pc[p] = "writeObject"
  /\ frame' = [frame EXCEPT ![p] =
       WriteObjectFrame(args[p], machine[p], machineMask[p], sectionName[p], sectionMask[p])]
  /\ pc' = [pc EXCEPT ![p] = "fileHeader"]
  /\ UNCHANGED <<args, machine, machineMask, sectionMask, sectionName, out, ret, stderr>>

\* One call on the invocation's sink.
Emit(p, from, to, call) ==
  /\ pc[p] = from
  /\ out' = [out EXCEPT ![SinkOf(args[p])] = Append(@, call)]
  /\ pc' = [pc EXCEPT ![p] = to]
  /\ UNCHANGED <<args, machine, machineMask, sectionMask, sectionName, frame, ret, stderr>>

\* Line 156: the count passed to writeRepeat.
PaddingCount(size) == Sub(pad(size), size)
\* Line 161.
SymbolTableSize(endNameOffset, endNameLength) == Add(endNameOffset, endNameLength)

\* Line 152.
WriteFileHeader(p) ==
  Emit(p, "fileHeader", "sectionHeader",
       writeChunk(ObjectBytes(IMAGE_FILE_HEADER, frame[p].fileHeader), SizeOfT(IMAGE_FILE_HEADER)))
\* Line 153.
WriteSectionHeader(p) ==
  Emit(p, "sectionHeader", "data",
       writeChunk(ObjectBytes(IMAGE_SECTION_HEADER, frame[p].sectionHeader),
                  SizeOfT(IMAGE_SECTION_HEADER)))
\* Line 155.
WriteData(p) ==
  Emit(p, "data", "padding", writeChunkData(args[p].data, frame[p].size))
\* Line 156.
WritePadding(p) ==
  Emit(p, "padding", "startSymbol", writeRepeat(0, PaddingCount(frame[p].size)))
\* Line 158.
WriteStartSymbol(p) ==
  Emit(p, "startSymbol", "endSymbol",
       writeChunk(ObjectBytes(IMAGE_SYMBOL, frame[p].startSymbol), SizeOfT(IMAGE_SYMBOL)))
\* Line 159.
WriteEndSymbol(p) ==
  Emit(p, "endSymbol", "symbolTableSize",
       writeChunk(ObjectBytes(IMAGE_SYMBOL, frame[p].endSymbol), SizeOfT(IMAGE_SYMBOL)))
\* Lines 161-162.
WriteSymbolTableSize(p) ==
  Emit(p, "symbolTableSize", "startName",
       writeChunk(SymbolTableSize(frame[p].endNameOffset, frame[p].endNameLength),
                  ToBytes(4, WSizeT)))
\* Line 164.
WriteStartName(p) ==
  Emit(p, "startName", "endName", writeChunk(CStr(args[p].startName), frame[p].startNameLength))
\* Line 165.
WriteEndName(p) ==
  Emit(p, "endName", "return", writeChunk(CStr(args[p].endName), frame[p].endNameLength))

\* Line 231: return true;
Return(p) ==
  /\ pc[p] = "return"
  /\ ret' = [ret EXCEPT ![p] = "true"]
  /\ pc' = [pc EXCEPT ![p] = "done"]
  /\ UNCHANGED <<args, machine, machineMask, sectionMask, sectionName, frame, out, stderr>>

\* ---------------------------------------------------------- specifications
NoCall == [BytesPerWord |-> 0]

InitLocals ==
  /\ machine = [p \in Procs |-> Indeterminate]
  /\ machineMask = [p \in Procs |-> Indeterminate]
  /\ sectionMask = [p \in Procs |-> Indeterminate]
  /\ sectionName = [p \in Procs |-> Indeterminate]
  /\ frame = [p \in Procs |-> NoFrame]
  /\ out = [k \in Procs |-> <<>>]
  /\ ret = [p \in Procs |-> NoReturn]
  /\ stderr = <<>>

\* One invocation, with any arguments, on either writer.
Init ==
  /\ \E a \in Args(1) :
       /\ a.data = <<170>>
       /\ args = [p \in Procs |-> IF p = 1 THEN a ELSE NoCall]
  /\ pc = [p \in Procs |-> IF p = 1 THEN "write" ELSE "unused"]
  /\ InitLocals

Step(p) ==
  \/ SelectMachine(p)
  \/ SelectAlignment(p)
  \/ UnsupportedAlignment(p)
  \/ SelectAccess(p)
  \/ EnterWriteObject(p)
  \/ WriteFileHeader(p)
  \/ WriteSectionHeader(p)
  \/ WriteData(p)
  \/ WritePadding(p)
  \/ WriteStartSymbol(p)
  \/ WriteEndSymbol(p)
  \/ WriteSymbolTableSize(p)
  \/ WriteStartName(p)
  \/ WriteEndName(p)
  \/ Return(p)

Next == \E p \in Procs : Step(p)

Spec == Init /\ [][Next]_vars

\* Two concurrent invocations on two different sinks (sink k for invocation k).
ConcArgs(o) == [BytesPerWord : WordSizes, data : Blobs, out : {o},
                size : {ToBytes(1, WSizeT), ToBytes(MaxSize, WSizeT)},
                startName : {n \in StartNames : Len(n) = MaxNameLen},
                endName : {n \in EndNames : Len(n) = 1},
                alignment : {ToBytes(3, W32), ToBytes(4, W32)},
                accessFlags : {Writable}]

InitConc ==
  /\ \E a1 \in ConcArgs(1), a2 \in ConcArgs(2) : args = [p \in Procs |-> IF p = 1 THEN a1 ELSE a2]
  /\ pc = [p \in Procs |-> "write"]
  /\ InitLocals

SpecConc == InitConc /\ [][Next]_vars

\* The 32-bit writer (invocation 1) and the 64-bit writer (invocation 2) given
\* the same data, names, alignment and access flags, each with its own sink.
PairArgs == {a \in Args(1) :
               /\ a.BytesPerWord = 4
               /\ a.data = <<1, 2>>
               /\ a.size \in {ToBytes(0, WSizeT), ToBytes(MaxSize, WSizeT),
                              Sub(TwoTo32, ToBytes(1, WSizeT))}
               /\ Len(a.startName) = MaxNameLen /\ Len(a.endName) = MaxNameLen}

InitPair ==
  /\ \E a \in PairArgs :
       args = [p \in Procs |-> IF p = 1 THEN a ELSE [a EXCEPT !.BytesPerWord = 8, !.out = 2]]
  /\ pc = [p \in Procs |-> "write"]
  /\ InitLocals

SpecPair == InitPair /\ [][Next]_vars

\* ------------------------------------------------------ reading the stream
\* The byte a call contributes at offset i (a size_t below the call's len).
CallByte(c, i) ==
  CASE c.kind = "lit" -> c.bytes[ToNat(i) + 1]
    [] c.kind = "mem" -> c.bytes[(i[1] % Len(c.bytes)) + 1]
    [] c.kind = "fill" -> c.bytes[1]

RECURSIVE StreamLen(_)
\* The number of bytes a sequence of calls appended, as a size_t.
StreamLen(calls) ==
  IF calls = <<>> THEN ToBytes(0, WSizeT) ELSE Add(Head(calls).len, StreamLen(Tail(calls)))

RECURSIVE ByteAt(_, _)
\* The byte at file offset pos of the stream, -1 past its end.
ByteAt(calls, pos) ==
  IF calls = <<>> THEN -1
  ELSE IF Less(pos, Head(calls).len) THEN CallByte(Head(calls), pos)
  ELSE ByteAt(Tail(calls), Sub(pos, Head(calls).len))

\* The n bytes at file offset pos.
ReadAt(calls, pos, n) == [k \in 1..n |-> ByteAt(calls, Add(pos, ToBytes(k - 1, WSizeT)))]

\* Field f of the packed struct T that starts at file offset pos.
FieldAt(calls, pos, T, f) ==
  ReadAt(calls, Add(pos, ToBytes(OffsetOf(T, f), WSizeT)), WidthOf(T, f))

RECURSIVE CStringAt(_, _, _)
\* The NUL-terminated string at file offset pos (at most max characters).
CStringAt(calls, pos, max) ==
  LET b == ByteAt(calls, pos)
  IN  IF b <= 0 \/ max = 0 THEN <<>>
      ELSE <<b>> \o CStringAt(calls, Add(pos, ToBytes(1, WSizeT)), max - 1)

\* Offset 0 of the file, and the offsets the COFF layout fixes.
FileStart == ToBytes(0, WSizeT)
SectionHeaderAt == SizeOfT(IMAGE_FILE_HEADER)

\* What the spec calls pad(n): n rounded up to a multiple of 4, as a number
\* (computed in 8 bytes, where no size below 2^63 wraps).
RoundUp4(n) == And(Add(n, ToBytes(3, WSizeT)), Not(ToBytes(3, WSizeT)))

Done(p) == pc[p] = "done"
Succeeded(p) == pc[p] = "done" /\ ret[p] = "true"
Sink(p) == out[args[p].out]
Invoked == {p \in Procs : pc[p] # "unused"}
Supported == {ToBytes(n, W32) : n \in {0, 1, 2, 4, 8}}

\* Field f of a struct object of type T that one writeChunk call carried.
FieldOf(c, T, f) == SubSeq(c.bytes, OffsetOf(T, f) + 1, OffsetOf(T, f) + WidthOf(T, f))

IsPrefix(s, t) == Len(s) <= Len(t) /\ s = SubSeq(t, 1, Len(s))

\* The op and byte count of each call.
Shape(calls) == [k \in 1..Len(calls) |-> <<calls[k].op, calls[k].len>>]

\* ------------------------------------------------------------------ claims

\* C1's description of a successful call: nine appends, in order: 20 header
\* bytes, 40 section-header bytes, the n data bytes, pad(n) - n zero bytes,
\* two 18-byte symbol records, the 4-byte size field, and each name with its NUL.
C1_Appends(a) ==
  LET n == a.size
  IN  << <<"writeChunk", ToBytes(20, WSizeT)>>,
         <<"writeChunk", ToBytes(40, WSizeT)>>,
         <<"writeChunk", n>>,
         <<"writeRepeat", Sub(RoundUp4(n), n)>>,
         <<"writeChunk", ToBytes(18, WSizeT)>>,
         <<"writeChunk", ToBytes(18, WSizeT)>>,
         <<"writeChunk", ToBytes(4, WSizeT)>>,
         <<"writeChunk", ToBytes(Len(a.startName) + 1, WSizeT)>>,
         <<"writeChunk", ToBytes(Len(a.endName) + 1, WSizeT)>> >>

\* C1: in every state the sink of an invocation with a supported alignment
\* holds a prefix of the nine appends C1 lists (it is only appended to, in
\* that order), and all nine, with the data bytes and zero padding in the
\* third and fourth, once write has returned true.
C1_ExactAppendsInOrder ==
  \A p \in Invoked :
    args[p].alignment \in Supported =>
      /\ IsPrefix(Shape(Sink(p)), C1_Appends(args[p]))
      /\ Succeeded(p) =>
           /\ Shape(Sink(p)) = C1_Appends(args[p])
           /\ Sink(p)[3].kind = "mem" /\ Sink(p)[3].bytes = args[p].data
           /\ Sink(p)[4].kind = "fill" /\ Sink(p)[4].bytes = <<0>>

\* ---- a COFF reader, for the round trip
MaxRead == MaxNameLen + IMAGE_SIZEOF_SHORT_NAME

\* The symbol table of the object file `calls` holds: its NumberOfSymbols
\* records at PointerToSymbolTable, long names resolved against the string
\* table that follows the records.
ReadSymbols(calls) ==
  LET pst == Conv(FieldAt(calls, FileStart, IMAGE_FILE_HEADER, "PointerToSymbolTable"), WSizeT)
      cnt == FieldAt(calls, FileStart, IMAGE_FILE_HEADER, "NumberOfSymbols")
      nsym == IF Small(cnt) /\ ToNat(cnt) <= 4 THEN ToNat(cnt) ELSE 0
      strtab == Add(pst, ToBytes(SizeOf(IMAGE_SYMBOL) * nsym, WSizeT))
      rec(k) == Add(pst, ToBytes(SizeOf(IMAGE_SYMBOL) * (k - 1), WSizeT))
      long(k) == Conv(FieldAt(calls, rec(k), IMAGE_SYMBOL, "Long"), WSizeT)
  IN  [k \in 1..nsym |->
        [name |-> IF IsZero(FieldAt(calls, rec(k), IMAGE_SYMBOL, "Short"))
                  THEN CStringAt(calls, Add(strtab, long(k)), MaxRead)
                  ELSE CStringAt(calls, rec(k), IMAGE_SIZEOF_SHORT_NAME),
         value |-> Conv(FieldAt(calls, rec(k), IMAGE_SYMBOL, "Value"), WSizeT),
         section |-> FieldAt(calls, rec(k), IMAGE_SYMBOL, "SectionNumber")]]

\* C3: once write has returned true, a COFF reader recovers from the sink
\* exactly two symbols, startName at 0 and endName at n (the size writeObject
\* was given), both in section 1, the only section the file header declares.
C3_RoundTrip ==
  \A p \in Invoked :
    Succeeded(p) =>
      /\ FieldAt(Sink(p), FileStart, IMAGE_FILE_HEADER, "NumberOfSections") = ToBytes(1, W16)
      /\ ReadSymbols(Sink(p)) =
           << [name |-> args[p].startName, value |-> ToBytes(0, WSizeT),
               section |-> ToBytes(1, W16)],
              [name |-> args[p].endName, value |-> Conv(frame[p].size, WSizeT),
               section |-> ToBytes(1, W16)] >>

\* C4: when the start symbol record is about to be appended, the number of
\* bytes in the sink is the header's PointerToSymbolTable, which is
\* 20 + 40 + pad(n) for the size n writeObject was given; when the first data
\* byte is about to be appended it is the section header's PointerToRawData,
\* which is 60.
C4_OffsetsMatchPositions ==
  \A p \in Invoked :
    /\ pc[p] = "startSymbol" =>
         LET pst == Conv(FieldAt(Sink(p), FileStart, IMAGE_FILE_HEADER, "PointerToSymbolTable"),
                         WSizeT)
         IN  /\ pst = Add(ToBytes(20 + 40, WSizeT), RoundUp4(Conv(frame[p].size, WSizeT)))
             /\ pst = StreamLen(Sink(p))
    /\ pc[p] = "data" =>
         LET raw == Conv(FieldAt(Sink(p), SectionHeaderAt, IMAGE_SECTION_HEADER,
                                 "PointerToRawData"), WSizeT)
         IN  raw = ToBytes(60, WSizeT) /\ raw = StreamLen(Sink(p))

\* C5: once write has returned true, the start symbol record written has
\* Value 0 and the end symbol record has Value n, the size passed to write.
C5_SymbolValues ==
  \A p \in Invoked :
    Succeeded(p) =>
      /\ FieldOf(Sink(p)[5], IMAGE_SYMBOL, "Value") = ToBytes(0, W32)
      /\ Conv(FieldOf(Sink(p)[6], IMAGE_SYMBOL, "Value"), WSizeT) = args[p].size

\* C7: for the size n writeObject receives, pad(n) is n rounded up to a
\* multiple of 4, pad(n) - n is below 4, SizeOfRawData is pad(n), and the
\* call after the n data bytes appends pad(n) - n zero bytes.
C7_PaddedSize ==
  \A p \in Invoked :
    Succeeded(p) =>
      LET n == Conv(frame[p].size, WSizeT)
          padded == Conv(pad(frame[p].size), WSizeT)
      IN  /\ padded = RoundUp4(n)
          /\ ~Less(padded, n) /\ Less(Sub(padded, n), ToBytes(4, WSizeT))
          /\ Conv(FieldOf(Sink(p)[2], IMAGE_SECTION_HEADER, "SizeOfRawData"), WSizeT) = padded
          /\ Sink(p)[3].len = n
          /\ Sink(p)[4] = Call("writeRepeat", "fill", <<0>>, Sub(padded, n))

\* C2: an invocation whose alignment is none of 0, 1, 2, 4, 8 never gets past
\* the switch, its sink stays empty in every state, and it returns false.
C2_UnsupportedAlignmentWritesNothing ==
  \A p \in Invoked :
    args[p].alignment \notin Supported =>
      /\ Sink(p) = <<>>
      /\ pc[p] \in {"write", "alignment", "done"}
      /\ ret[p] # "true"
      /\ Done(p) => ret[p] = "false"

\* An invocation with alignment 16 has returned false after reporting 16.
C2_Witness ==
  \E p \in Invoked :
    /\ Done(p) /\ ret[p] = "false" /\ Sink(p) = <<>>
    /\ args[p].alignment = ToBytes(16, W32)
    /\ stderr = <<ToBytes(16, W32)>>

\* C6: once write has returned true, the 4-byte size field appended after the
\* two symbol records holds 4 + (len(startName)+1) + (len(endName)+1), the
\* number of bytes from the size field to the end of the stream, and what
\* follows it is startName, NUL, endName, NUL.
C6_StringTableSize ==
  \A p \in Invoked :
    Succeeded(p) =>
      LET field == Sink(p)[7].bytes
          tail == SubSeq(Sink(p), 7, Len(Sink(p)))
      IN  /\ field = ToBytes(4 + (Len(args[p].startName) + 1) + (Len(args[p].endName) + 1), W32)
          /\ Conv(field, WSizeT) = StreamLen(tail)
          /\ ReadAt(tail, ToBytes(4, WSizeT), ToNat(field) - 4)
               = args[p].startName \o <<0>> \o args[p].endName \o <<0>>

\* A successful call with names of different lengths.
C6_Witness ==
  \E p \in Invoked :
    /\ Succeeded(p)
    /\ Len(args[p].startName) = MaxNameLen /\ Len(args[p].endName) = 1
    /\ Sink(p)[7].bytes = ToBytes(4 + (MaxNameLen + 1) + 2, W32)

\* ---- C8: what the claim says the section header holds
C8_Writable(flags) == ~IsZero(And(flags, Writable))
C8_Executable(flags) == ~IsZero(And(flags, Executable))
C8_Code(flags) == (C8_Writable(flags) /\ C8_Executable(flags)) \/ ~C8_Writable(flags)

C8_Name(flags) ==
  IF C8_Writable(flags) /\ C8_Executable(flags) THEN <<46, 114, 119, 120, 0, 0, 0, 0>>
  ELSE IF C8_Writable(flags) THEN <<46, 100, 97, 116, 97, 0, 0, 0>>
  ELSE <<46, 116, 101, 120, 116, 0, 0, 0>>

\* The alignment class (bits 20-23 of the characteristics).
C8_Class(alignment) ==
  CASE alignment \in {ToBytes(0, W32), ToBytes(1, W32)} -> 1
    [] alignment = ToBytes(2, W32) -> 2
    [] alignment = ToBytes(4, W32) -> 3
    [] alignment = ToBytes(8, W32) -> 4

\* contains-code is bit 5; execute, read, write are bits 29, 30, 31.
C8_Characteristics(alignment, flags) ==
  << IF C8_Code(flags) THEN 32 ELSE 0,
     0,
     16 * C8_Class(alignment),
     64 + (IF C8_Writable(flags) THEN 128 ELSE 0) + (IF C8_Code(flags) THEN 32 ELSE 0) >>

\* C8: once write has returned true, the section header in the sink has the
\* name and exactly the characteristics bits that the claim's table gives for
\* the call's alignment and access flags, whatever the size, names and word size.
C8_SectionPolicy ==
  \A p \in Invoked :
    Succeeded(p) =>
      /\ FieldAt(Sink(p), SectionHeaderAt, IMAGE_SECTION_HEADER, "Name")
           = C8_Name(args[p].accessFlags)
      /\ FieldAt(Sink(p), SectionHeaderAt, IMAGE_SECTION_HEADER, "Characteristics")
           = C8_Characteristics(args[p].alignment, args[p].accessFlags)

\* A successful call with Writable | Executable and alignment 8: section .rwx.
C8_Witness ==
  \E p \in Invoked :
    /\ Succeeded(p)
    /\ args[p].accessFlags = Or(Writable, Executable)
    /\ args[p].alignment = ToBytes(8, W32)
    /\ FieldAt(Sink(p), SectionHeaderAt, IMAGE_SECTION_HEADER, "Characteristics")
         = <<32, 0, 64, 224>>

\* C9: when the 32-bit writer (invocation 1) and the 64-bit writer (invocation
\* 2) have both returned on the same input, they returned the same result,
\* their sinks got the same calls after the file header, and the two file
\* headers differ only in Machine (0x014c / 0x8664) and in Characteristics
\* (0x0105 / 0x0005).
C9_WordSizeIndependent ==
  (Done(1) /\ Done(2)) =>
    /\ ret[1] = ret[2]
    /\ Len(out[1]) = Len(out[2])
    /\ StreamLen(out[1]) = StreamLen(out[2])
    /\ \A k \in 2..Len(out[1]) : out[1][k] = out[2][k]
    /\ ret[1] = "true" =>
         /\ out[1][1].op = out[2][1].op /\ out[1][1].len = out[2][1].len
         /\ \A i \in 1..SizeOf(IMAGE_FILE_HEADER) :
              i \notin {1, 2, 19, 20} => out[1][1].bytes[i] = out[2][1].bytes[i]
         /\ SubSeq(out[1][1].bytes, 1, 2) = <<76, 1>>
         /\ SubSeq(out[2][1].bytes, 1, 2) = <<100, 134>>
         /\ SubSeq(out[1][1].bytes, 19, 20) = <<5, 1>>
         /\ SubSeq(out[2][1].bytes, 19, 20) = <<5, 0>>

\* Both writers have returned true on one input of MaxSize bytes.
C9_Witness ==
  /\ Succeeded(1) /\ Succeeded(2)
  /\ args[1].BytesPerWord = 4 /\ args[2].BytesPerWord = 8
  /\ args[1].size = ToBytes(MaxSize, WSizeT)
  /\ [args[2] EXCEPT !.BytesPerWord = 4, !.out = 1] = args[1]
  /\ out[1] # out[2]

\* ---- C10: the calls an invocation makes on its sink when it runs alone
WriteAlone(a) ==
  IF AlignmentMask(a.alignment) = Indeterminate THEN <<>>
  ELSE LET f == WriteObjectFrame(a, MachineFor(a.BytesPerWord),
                                 MachineMaskFor(a.BytesPerWord),
                                 SectionNameFor(a.accessFlags),
                                 Or(Or(AlignmentMask(a.alignment), IMAGE_SCN_MEM_READ),
                                    AccessMask(a.accessFlags)))
       IN  << writeChunk(ObjectBytes(IMAGE_FILE_HEADER, f.fileHeader), SizeOfT(IMAGE_FILE_HEADER)),
              writeChunk(ObjectBytes(IMAGE_SECTION_HEADER, f.sectionHeader),
                         SizeOfT(IMAGE_SECTION_HEADER)),
              writeChunkData(a.data, f.size),
              writeRepeat(0, PaddingCount(f.size)),
              writeChunk(ObjectBytes(IMAGE_SYMBOL, f.startSymbol), SizeOfT(IMAGE_SYMBOL)),
              writeChunk(ObjectBytes(IMAGE_SYMBOL, f.endSymbol), SizeOfT(IMAGE_SYMBOL)),
              writeChunk(SymbolTableSize(f.endNameOffset, f.endNameLength), ToBytes(4, WSizeT)),
              writeChunk(CStr(a.startName), f.startNameLength),
              writeChunk(CStr(a.endName), f.endNameLength) >>

\* Under Spec, where one invocation runs alone: WriteAlone is what its sink
\* holds when it has returned.
WriteAloneIsSolo == \A p \in Invoked : Done(p) => Sink(p) = WriteAlone(args[p])

====
